---- MODULE Spec2Model ----
(***************************************************************************)
(* Model of examples/opencv/example.cpp: a command-line program that loads *)
(* an image, applies cv::dilate or cv::erode with an 11x11 rectangular     *)
(* structuring element, prints the elapsed time and writes output.png.     *)
(*                                                                         *)
(* Strings are sequences of one-character strings, so that the trimming    *)
(* done by CommandLineParser::get and the comparisons of main are computed *)
(* rather than assumed.  An image (cv::Mat, or the decoded content of an   *)
(* image file) is a record [rows, cols, channels, data] where data maps a  *)
(* <<row, col>> pair (0-based) to the sequence of its channel values.      *)
(*                                                                         *)
(* Modelled argv holds positional arguments only (no token starts with     *)
(* '-').  The file system holds one candidate input file, named InputPath, *)
(* and output.png in the current directory.                                *)
(***************************************************************************)
EXTENDS Integers, Sequences, FiniteSets, TLC

VARIABLES
    argv,        \* argv[1..argc-1]: the arguments after the program name
    fs_input,    \* what the file system holds under InputPath
    output_png,  \* what the file system holds under output.png
    pc,          \* position of main
    parser,      \* CommandLineParser: [input, morph: def_value; error: flag]
    morph_type,  \* String morph_type
    src,         \* Mat src
    dst,         \* Mat dst
    cout,        \* lines written to standard output, in order
    applied,     \* the transform functions called so far, in order
    imwrites,    \* the results of the imwrite calls so far, in order
    ret,         \* <<>> while running or aborted, <<code>> once main returned
    prev         \* observation of the previous invocation (NoRun if none)

vars == <<argv, fs_input, output_png, pc, parser, morph_type, src, dst, cout,
          applied, imwrites, ret, prev>>

-----------------------------------------------------------------------------
(* Bounds of the model *)

MaxArgs == 2      \* at most this many command-line arguments
MaxCols == 13     \* width of the widest image (wider than the element)
MaxRows == 2      \* height of the multi-row test image
SolidSide == 10   \* side of the square test image

-----------------------------------------------------------------------------
(* String literals of the program *)

Sp == " "
dilateStr == <<"d", "i", "l", "a", "t", "e">>
erodeStr == <<"e", "r", "o", "d", "e">>
noneValue == <<"<", "n", "o", "n", "e", ">">>
InputPath == <<"i", "n", ".", "p", "n", "g">>
fooStr == <<"f", "o", "o">>
paddedDilateStr == <<Sp>> \o dilateStr \o <<Sp>>
emptyStr == <<>>

\* keys with the default operation mistaken for the other one.
keys_erodeDefault == [input |-> <<Sp>> \o noneValue \o <<Sp>>,
                      morph |-> <<Sp>> \o erodeStr \o <<Sp>>]

\* const String keys: the default-value field of each positional key, as
\* written between the '|' separators.
keys == [input |-> <<Sp>> \o noneValue \o <<Sp>>,
         morph |-> <<Sp>> \o dilateStr \o <<Sp>>]

morph_size == 5

MsgCouldNotOpen == "Could not open or find the image!\n"
MsgInvalidMorph == "Invalid morph operation!\n"
MsgUsage == "Usage: prog <Input image> [erode|dilate]"
MsgParseErrors == "ERRORS:"
MsgTimeDilate == "Time taken to dilate: N microseconds"
MsgTimeErode == "Time taken to erode: N microseconds"

-----------------------------------------------------------------------------
(* Files and images *)

NoFile == [kind |-> "absent"]
Garbage == [kind |-> "undecodable"]
EmptyMat == [rows |-> 0, cols |-> 0, channels |-> 0, data |-> <<>>]

Pixels(rows, cols) == (0 .. rows - 1) \X (0 .. cols - 1)

\* Pixel colours an input file may use, by the file's channel count
\* (1: grayscale, 3: BGR, 4: BGR + alpha).
Palette(n) ==
    CASE n = 1 -> {<<40>>, <<200>>}
      [] n = 3 -> {<<10, 200, 90>>, <<250, 0, 90>>}
      [] n = 4 -> {<<10, 200, 90, 128>>}

FileChannels == {1, 3, 4}

Dims == {<<1, 1>>, <<1, MaxCols>>, <<MaxRows, MaxCols - 1>>,
         <<SolidSide, SolidSide>>}

\* Positions of the one pixel that may differ from the background.
Marks(rows, cols) == {<<0, 0>>, <<rows - 1, cols - 1>>, <<0, cols \div 2>>}

ImageFile(rows, cols, n, bg, fg, mark) ==
    [kind |-> "image", rows |-> rows, cols |-> cols, channels |-> n,
     data |-> [p \in Pixels(rows, cols) |-> IF p = mark THEN fg ELSE bg]]

ImageFiles ==
    UNION { UNION { { ImageFile(d[1], d[2], n, bg, fg, m) :
                        bg \in Palette(n), fg \in Palette(n),
                        m \in Marks(d[1], d[2]) } :
                    n \in FileChannels } :
            d \in Dims }

Args == UNION { [1 .. n -> {InputPath, dilateStr, erodeStr, fooStr,
                            paddedDilateStr}] : n \in 0 .. MaxArgs }

-----------------------------------------------------------------------------
(* cv::CommandLineParser, as far as main uses it *)

RECURSIVE TrimLeft(_), TrimRight(_)
TrimLeft(s) == IF s # <<>> /\ Head(s) = Sp THEN TrimLeft(Tail(s)) ELSE s
TrimRight(s) ==
    IF s # <<>> /\ s[Len(s)] = Sp THEN TrimRight(SubSeq(s, 1, Len(s) - 1))
    ELSE s

\* cat_string: strips the spaces at both ends.
cat_string(s) == TrimRight(TrimLeft(s))

\* CommandLineParser(argc, argv, keys): every key starts from its default;
\* the i-th positional argument replaces the value of the i-th '@' key;
\* further positional arguments match no key and are dropped.  Nothing in
\* the constructor reports a missing argument, so error starts false.
CommandLineParser(av) ==
    [input |-> IF Len(av) >= 1 THEN av[1] ELSE keys.input,
     morph |-> IF Len(av) >= 2 THEN av[2] ELSE keys.morph,
     error |-> FALSE]

\* parser.get<String>(name): the trimmed value; a value equal to "<none>"
\* sets the error flag and yields the default-constructed (empty) String.
get(def_value) ==
    LET v == cat_string(def_value)
    IN  IF v = noneValue THEN [val |-> emptyStr, error |-> TRUE]
        ELSE [val |-> v, error |-> FALSE]

-----------------------------------------------------------------------------
(* Image input and output *)

\* samples::findFile(path), required = true: the file found, or NoFile when
\* the lookup fails, in which case findFile throws cv::Exception.  The empty
\* path names no file; joined to a configured samples data directory it can
\* name that directory, which opens but does not decode.
findFile(path) ==
    IF path = InputPath /\ fs_input # NoFile THEN {fs_input}
    ELSE IF path = emptyStr THEN {NoFile, Garbage}
    ELSE {NoFile}

\* IMREAD_COLOR: the decoded image is always converted to 3 channels (BGR).
ToBGR(px) == IF Len(px) = 1 THEN <<px[1], px[1], px[1]>> ELSE SubSeq(px, 1, 3)

imread(file) ==
    IF file.kind # "image" THEN EmptyMat
    ELSE [rows |-> file.rows, cols |-> file.cols, channels |-> 3,
          data |-> [p \in Pixels(file.rows, file.cols) |-> ToBGR(file.data[p])]]

\* The PNG file imwrite encodes from a Mat (lossless).
EncodePng(m) ==
    [kind |-> "image", rows |-> m.rows, cols |-> m.cols,
     channels |-> m.channels, data |-> m.data]

-----------------------------------------------------------------------------
(* Morphology *)

SetMax(S) == CHOOSE x \in S : \A y \in S : y <= x
SetMin(S) == CHOOSE x \in S : \A y \in S : x <= y

\* getStructuringElement(MORPH_RECT, Size(2*morph_size+1, 2*morph_size+1),
\* Point(morph_size, morph_size)): a rectangle of ones; the offsets of its
\* cells from the anchor.
getStructuringElement ==
    LET side == 2 * morph_size + 1
    IN  { <<i - morph_size, j - morph_size>> :
            i \in 0 .. side - 1, j \in 0 .. side - 1 }

\* A source channel value, or the border value outside the image.
At(m, r, c, ch, border) ==
    IF r >= 0 /\ r < m.rows /\ c >= 0 /\ c < m.cols THEN m.data[<<r, c>>][ch]
    ELSE border

\* dilate with an 11x1 element: the window no longer spans the rows.
dilate_rowOnly(m, element) ==
    [m EXCEPT !.data =
        [p \in Pixels(m.rows, m.cols) |->
            [ch \in 1 .. m.channels |->
                SetMax({ At(m, p[1], p[2] + o[2], ch, 0) : o \in element })]]]

\* cv::dilate(src, dst, element) with the default border (BORDER_CONSTANT,
\* morphologyDefaultBorderValue): outside pixels count as the lowest value.
dilate(m, element) ==
    [m EXCEPT !.data =
        [p \in Pixels(m.rows, m.cols) |->
            [ch \in 1 .. m.channels |->
                SetMax({ At(m, p[1] + o[1], p[2] + o[2], ch, 0) :
                         o \in element })]]]

\* erode taking the maximum, as the near-duplicate Dilation does.
erode_takesMax(m, element) ==
    [m EXCEPT !.data =
        [p \in Pixels(m.rows, m.cols) |->
            [ch \in 1 .. m.channels |->
                SetMax({ At(m, p[1] + o[1], p[2] + o[2], ch, 0) :
                         o \in element })]]]

\* erode with a zero-filled border (BORDER_CONSTANT with value 0).
erode_zeroBorder(m, element) ==
    [m EXCEPT !.data =
        [p \in Pixels(m.rows, m.cols) |->
            [ch \in 1 .. m.channels |->
                SetMin({ At(m, p[1] + o[1], p[2] + o[2], ch, 0) :
                         o \in element })]]]

\* cv::erode(src, dst, element) with the default border: outside pixels
\* count as the highest value.
erode(m, element) ==
    [m EXCEPT !.data =
        [p \in Pixels(m.rows, m.cols) |->
            [ch \in 1 .. m.channels |->
                SetMin({ At(m, p[1] + o[1], p[2] + o[2], ch, 255) :
                         o \in element })]]]

-----------------------------------------------------------------------------
(* main *)

NoRun == [ran |-> FALSE]

Start(av) ==
    /\ argv = av
    /\ pc = "ParseArgs"
    /\ parser = [input |-> emptyStr, morph |-> emptyStr, error |-> FALSE]
    /\ morph_type = emptyStr
    /\ src = EmptyMat
    /\ dst = EmptyMat
    /\ cout = <<>>
    /\ applied = <<>>
    /\ imwrites = <<>>
    /\ ret = <<>>

Init ==
    /\ \E av \in Args : Start(av)
    /\ fs_input \in {NoFile, Garbage} \cup ImageFiles
    /\ output_png = NoFile
    /\ prev = NoRun

\* printUsage(argv[0])
printUsage(out) == Append(out, MsgUsage)

\* Lines 25-29: construct the parser; leave with 1 if it reports an error.
ParseArgs ==
    /\ pc = "ParseArgs"
    /\ LET p == CommandLineParser(argv)
       IN  /\ parser' = p
           /\ IF ~p.error
              THEN /\ pc' = "GetMorph"
                   /\ UNCHANGED <<cout, ret>>
              ELSE /\ cout' = Append(cout, MsgParseErrors)
                   /\ ret' = <<1>>
                   /\ pc' = "Exit"
    /\ UNCHANGED <<argv, fs_input, output_png, morph_type, src, dst, applied,
                   imwrites, prev>>

\* Line 30: String morph_type = parser.get<String>("@morph")
GetMorph ==
    /\ pc = "GetMorph"
    /\ LET g == get(parser.morph)
       IN  /\ morph_type' = g.val
           /\ parser' = [parser EXCEPT !.error = parser.error \/ g.error]
    /\ pc' = "LoadImage"
    /\ UNCHANGED <<argv, fs_input, output_png, src, dst, cout, applied,
                   imwrites, ret, prev>>

\* Line 31: Mat src = imread(samples::findFile(parser.get<String>("@input")),
\* IMREAD_COLOR).  The exception findFile throws is caught nowhere, so the
\* program ends in std::terminate.
LoadImage ==
    /\ pc = "LoadImage"
    /\ LET g == get(parser.input)
       IN  /\ parser' = [parser EXCEPT !.error = parser.error \/ g.error]
           /\ \E found \in findFile(g.val) :
                IF found = NoFile
                THEN /\ pc' = "Terminate"
                     /\ src' = src
                ELSE /\ src' = imread(found)
                     /\ pc' = "CheckImage"
    /\ UNCHANGED <<argv, fs_input, output_png, morph_type, dst, cout, applied,
                   imwrites, ret, prev>>

\* Lines 32-37: if (src.empty()) { message; usage; return 1; }
CheckImage ==
    /\ pc = "CheckImage"
    /\ IF src = EmptyMat
       THEN /\ cout' = printUsage(Append(cout, MsgCouldNotOpen))
            /\ ret' = <<1>>
            /\ pc' = "Exit"
       ELSE /\ pc' = "SelectOperation"
            /\ UNCHANGED <<cout, ret>>
    /\ UNCHANGED <<argv, fs_input, output_png, parser, morph_type, src, dst,
                   applied, imwrites, prev>>

\* SelectOperation whose last branch does not return: an unknown operation
\* prints its message and goes on to imwrite.
SelectOperation_noReturn ==
    /\ pc = "SelectOperation"
    /\ IF morph_type = dilateStr
       THEN /\ pc' = "Dilation"
            /\ UNCHANGED cout
       ELSE IF morph_type = erodeStr
       THEN /\ pc' = "Erosion"
            /\ UNCHANGED cout
       ELSE /\ cout' = printUsage(Append(cout, MsgInvalidMorph))
            /\ pc' = "WriteOutput"
    /\ UNCHANGED <<argv, fs_input, output_png, parser, morph_type, src, dst,
                   applied, imwrites, ret, prev>>

\* Lines 38-48: choose the transform by comparing morph_type.
SelectOperation ==
    /\ pc = "SelectOperation"
    /\ IF morph_type = dilateStr
       THEN /\ pc' = "Dilation"
            /\ UNCHANGED <<cout, ret>>
       ELSE IF morph_type = erodeStr
       THEN /\ pc' = "Erosion"
            /\ UNCHANGED <<cout, ret>>
       ELSE /\ cout' = printUsage(Append(cout, MsgInvalidMorph))
            /\ ret' = <<1>>
            /\ pc' = "Exit"
    /\ UNCHANGED <<argv, fs_input, output_png, parser, morph_type, src, dst,
                   applied, imwrites, prev>>

\* Dilation printing the label of Erosion.
Dilation_erodeLabel ==
    /\ pc = "Dilation"
    /\ dst' = dilate(src, getStructuringElement)
    /\ cout' = Append(cout, MsgTimeErode)
    /\ applied' = Append(applied, "Dilation")
    /\ pc' = "WriteOutput"
    /\ UNCHANGED <<argv, fs_input, output_png, parser, morph_type, src,
                   imwrites, ret, prev>>

\* Lines 40, 53-65: dst = Dilation(src)
Dilation ==
    /\ pc = "Dilation"
    /\ dst' = dilate(src, getStructuringElement)
    /\ cout' = Append(cout, MsgTimeDilate)
    /\ applied' = Append(applied, "Dilation")
    /\ pc' = "WriteOutput"
    /\ UNCHANGED <<argv, fs_input, output_png, parser, morph_type, src,
                   imwrites, ret, prev>>

\* Lines 42, 67-79: dst = Erosion(src)
Erosion ==
    /\ pc = "Erosion"
    /\ dst' = erode(src, getStructuringElement)
    /\ cout' = Append(cout, MsgTimeErode)
    /\ applied' = Append(applied, "Erosion")
    /\ pc' = "WriteOutput"
    /\ UNCHANGED <<argv, fs_input, output_png, parser, morph_type, src,
                   imwrites, ret, prev>>

\* Lines 49-50: imwrite("output.png", dst); return 0;  The result of imwrite
\* (false when the file cannot be written) is not looked at.
WriteOutput ==
    /\ pc = "WriteOutput"
    /\ \E ok \in BOOLEAN :
        /\ output_png' = IF ok THEN EncodePng(dst) ELSE output_png
        /\ imwrites' = Append(imwrites, ok)
    /\ ret' = <<0>>
    /\ pc' = "Exit"
    /\ UNCHANGED <<argv, fs_input, parser, morph_type, src, dst, cout,
                   applied, prev>>

Next ==
    \/ ParseArgs
    \/ GetMorph
    \/ LoadImage
    \/ CheckImage
    \/ SelectOperation
    \/ Dilation
    \/ Erosion
    \/ WriteOutput

Spec == Init /\ [][Next]_vars

-----------------------------------------------------------------------------
(* Two invocations in the same directory, one after the other *)

Terminated == pc \in {"Exit", "Terminate"}

\* Files of one row: enough to tell the two transforms apart.
RowFiles == { f \in ImageFiles : f.rows = 1 }

\* Argument lists no longer than the number of positional keys.
KeyArgs == { a \in Args : Len(a) <= 2 }

InitPair ==
    /\ \E av \in KeyArgs : Start(av)
    /\ fs_input \in {NoFile, Garbage} \cup RowFiles
    /\ output_png = NoFile
    /\ prev = NoRun

\* The process has ended; the program is started again, with any arguments.
\* What the ended run did is kept in prev; output.png stays as it was left.
Rerun ==
    /\ Terminated
    /\ prev = NoRun
    /\ prev' = [ran |-> TRUE, argv |-> argv, pc |-> pc, ret |-> ret,
                cout |-> cout, applied |-> applied, dst |-> dst,
                imwrites |-> imwrites, output_png |-> output_png]
    /\ \E av \in KeyArgs : argv' = av
    /\ pc' = "ParseArgs"
    /\ parser' = [input |-> emptyStr, morph |-> emptyStr, error |-> FALSE]
    /\ morph_type' = emptyStr
    /\ src' = EmptyMat
    /\ dst' = EmptyMat
    /\ cout' = <<>>
    /\ applied' = <<>>
    /\ imwrites' = <<>>
    /\ ret' = <<>>
    /\ UNCHANGED <<fs_input, output_png>>

NextPair == Next \/ Rerun

SpecPair == InitPair /\ [][NextPair]_vars

-----------------------------------------------------------------------------
(* Vocabulary of the properties *)

Count(seq, x) == Cardinality({ i \in 1 .. Len(seq) : seq[i] = x })
Has(seq, x) == \E i \in 1 .. Len(seq) : seq[i] = x

TimingLines == Count(cout, MsgTimeDilate) + Count(cout, MsgTimeErode)

\* s is the word w with any number of spaces before and after it.
IsPadded(s, w) ==
    \E i \in 1 .. Len(s) + 1 : \E j \in 0 .. Len(s) :
        /\ SubSeq(s, i, j) = w
        /\ \A k \in 1 .. Len(s) : (k < i \/ k > j) => s[k] = Sp

\* The run got its image: the input argument names a decodable file.
InputLoads == Len(argv) >= 1 /\ argv[1] = InputPath /\ fs_input.kind = "image"

HasOpArg == Len(argv) >= 2

\* Nothing was transformed, timed or written.
NothingDone ==
    /\ applied = <<>>
    /\ imwrites = <<>>
    /\ TimingLines = 0
    /\ output_png = NoFile
    /\ dst = EmptyMat

\* The 11x11 window centred on pixel p, clipped to the image m.
Window11(m, p) ==
    { q \in Pixels(m.rows, m.cols) :
        /\ q[1] - p[1] <= 5 /\ p[1] - q[1] <= 5
        /\ q[2] - p[2] <= 5 /\ p[2] - q[2] <= 5 }

SameShape(a, b) ==
    a.rows = b.rows /\ a.cols = b.cols /\ a.channels = b.channels

\* The input file holds one colour in every pixel.
IsSolid(f) ==
    f.kind = "image" /\ \A p, q \in DOMAIN f.data : f.data[p] = f.data[q]

-----------------------------------------------------------------------------
(* C1 *)

\* C1, as claimed: a run whose image loads and whose operation argument is
\* any string other than exactly "dilate" or "erode" prints "Invalid morph
\* operation!" and the usage line, returns 1 and transforms, times and writes
\* nothing.
C1_AsClaimed ==
    (Terminated /\ InputLoads /\ HasOpArg
        /\ argv[2] \notin {dilateStr, erodeStr})
    => (pc = "Exit" /\ ret = <<1>>
        /\ cout = <<MsgInvalidMorph, MsgUsage>> /\ NothingDone)

\* C1, amended: the same holds for every operation argument that is not
\* "dilate" or "erode" once the spaces at its two ends are stripped.
C1_InvalidOperation ==
    (Terminated /\ InputLoads /\ HasOpArg
        /\ ~IsPadded(argv[2], dilateStr) /\ ~IsPadded(argv[2], erodeStr))
    => (pc = "Exit" /\ ret = <<1>>
        /\ cout = <<MsgInvalidMorph, MsgUsage>> /\ NothingDone)

C1_Witness ==
    /\ pc = "Exit" /\ InputLoads /\ HasOpArg /\ argv[2] = fooStr
    /\ ret = <<1>> /\ Has(cout, MsgInvalidMorph)

-----------------------------------------------------------------------------
(* C2 *)

\* C2: a run whose input path does not resolve to a decodable image prints
\* "Could not open or find the image!" and the usage line, returns 1, and
\* neither transforms nor creates output.png.
C2_AsClaimed ==
    (Terminated /\ Len(argv) >= 1 /\ ~InputLoads)
    => (pc = "Exit" /\ ret = <<1>>
        /\ cout = <<MsgCouldNotOpen, MsgUsage>> /\ NothingDone)

-----------------------------------------------------------------------------
(* C3 *)

\* C3: a run with no input argument prints an error and the usage line,
\* returns 1, and loads, transforms and writes nothing.
C3_AsClaimed ==
    (Terminated /\ Len(argv) = 0)
    => (pc = "Exit" /\ ret = <<1>>
        /\ Len(cout) >= 2 /\ cout[Len(cout)] = MsgUsage
        /\ src = EmptyMat /\ NothingDone)

-----------------------------------------------------------------------------
(* C4 *)

\* C4: main returns 0 only if the transformed image was actually written to
\* output.png.
C4_AsClaimed ==
    (pc = "Exit" /\ ret = <<0>>)
    => (imwrites = <<TRUE>> /\ output_png = EncodePng(dst))

-----------------------------------------------------------------------------
(* C5 *)

\* C5: of two runs on the same input path and files, one given no operation
\* argument and the other the explicit operation "dilate", both end the same
\* way: same exit, same branch (Dilation), same lines on standard output,
\* same image handed to imwrite, and the same output.png whenever the two
\* writes fared alike.
PairOf(short, long) == Len(short) = 1 /\ long = short \o <<dilateStr>>

C5_DefaultIsDilate ==
    (prev.ran /\ Terminated
        /\ (PairOf(prev.argv, argv) \/ PairOf(argv, prev.argv)))
    => /\ pc = prev.pc
       /\ ret = prev.ret
       /\ cout = prev.cout
       /\ applied = prev.applied
       /\ dst = prev.dst
       /\ Len(imwrites) = Len(prev.imwrites)
       /\ (imwrites = prev.imwrites => output_png = prev.output_png)
       /\ (applied # <<>> => applied = <<"Dilation">>)

C5_Witness ==
    /\ prev.ran /\ prev.argv = <<InputPath>>
    /\ argv = <<InputPath, dilateStr>>
    /\ pc = "Exit" /\ ret = <<0>> /\ prev.ret = <<0>>
    /\ applied = <<"Dilation">> /\ dst # src /\ imwrites = <<TRUE>>

-----------------------------------------------------------------------------
(* C6 *)

\* C6: when Dilation has returned, dst has the shape of src and each of its channel
\* values is the maximum of the source values under the 11x11 window centred
\* on the pixel, hence at least the source value at the pixel itself.
C6_DilateIsWindowMax ==
    (pc = "WriteOutput" /\ applied = <<"Dilation">>)
    => /\ SameShape(dst, src)
       /\ \A p \in Pixels(src.rows, src.cols) : \A ch \in 1 .. 3 :
            /\ \A q \in Window11(src, p) : src.data[q][ch] <= dst.data[p][ch]
            /\ \E q \in Window11(src, p) : src.data[q][ch] = dst.data[p][ch]
            /\ dst.data[p][ch] >= src.data[p][ch]

C6_Witness ==
    /\ applied = <<"Dilation">> /\ pc = "WriteOutput"
    /\ src.rows > 1 /\ src.cols > 11
    /\ \E p, q \in Pixels(src.rows, src.cols) :
         /\ dst.data[p] # src.data[p]
         /\ dst.data[q] = src.data[q]
         /\ dst.data[p] # dst.data[q]

-----------------------------------------------------------------------------
(* C7 *)

\* C7: when Erosion has returned, dst has the shape of src and each of its channel values
\* is the minimum of the source values under the 11x11 window centred on the
\* pixel, hence at most the source value at the pixel itself.
C7_ErodeIsWindowMin ==
    (pc = "WriteOutput" /\ applied = <<"Erosion">>)
    => /\ SameShape(dst, src)
       /\ \A p \in Pixels(src.rows, src.cols) : \A ch \in 1 .. 3 :
            /\ \A q \in Window11(src, p) : src.data[q][ch] >= dst.data[p][ch]
            /\ \E q \in Window11(src, p) : src.data[q][ch] = dst.data[p][ch]
            /\ dst.data[p][ch] <= src.data[p][ch]

C7_Witness ==
    /\ applied = <<"Erosion">> /\ pc = "WriteOutput"
    /\ src.rows > 1 /\ src.cols > 11
    /\ \E p, q \in Pixels(src.rows, src.cols) :
         /\ dst.data[p] # src.data[p]
         /\ dst.data[q] = src.data[q]
         /\ dst.data[p] # dst.data[q]

-----------------------------------------------------------------------------
(* C8 *)

\* C8, as claimed: for a solid-colour input image and either operation, the
\* written output has the dimensions and the channel count of the input and
\* every pixel keeps the input's colour.
C8_AsClaimed ==
    (IsSolid(fs_input) /\ pc = "Exit" /\ imwrites = <<TRUE>>)
    => /\ SameShape(output_png, fs_input)
       /\ \A p \in DOMAIN fs_input.data : output_png.data[p] = fs_input.data[p]

\* C8, amended: the written output has the dimensions of the input and the
\* three channels of the image as loaded (a gray value g loads as (g, g, g),
\* an alpha channel is dropped), and every pixel keeps that loaded colour.
LoadedColour(px) == IF Len(px) = 1 THEN <<px[1], px[1], px[1]>>
                    ELSE <<px[1], px[2], px[3]>>

C8_SolidStaysSolid ==
    (IsSolid(fs_input) /\ pc = "Exit" /\ imwrites = <<TRUE>>)
    => /\ output_png.kind = "image"
       /\ output_png.rows = fs_input.rows
       /\ output_png.cols = fs_input.cols
       /\ output_png.channels = 3
       /\ DOMAIN output_png.data = DOMAIN fs_input.data
       /\ \A p \in DOMAIN fs_input.data :
            output_png.data[p] = LoadedColour(fs_input.data[p])

C8_Witness ==
    /\ IsSolid(fs_input) /\ pc = "Exit" /\ imwrites = <<TRUE>>
    /\ fs_input.rows = SolidSide /\ fs_input.cols = SolidSide
    /\ fs_input.rows < 2 * morph_size + 1
    /\ applied = <<"Erosion">>
    /\ output_png.data[<<0, 0>>] = fs_input.data[<<0, 0>>]

-----------------------------------------------------------------------------
(* C9 *)

\* C9: every run ends in Exit(0) or Exit(1); a run that returns 0 loaded the
\* image, applied exactly one transform and wrote once; a run that returns 1
\* applied and wrote nothing; and a run given both an unloadable image and an
\* invalid operation name reports the load failure.
C9_AsClaimed ==
    /\ (pc = "Exit" /\ ret \in {<<0>>, <<1>>}) \/ ENABLED Next
    /\ ret = <<0>> => (src # EmptyMat /\ Len(applied) = 1 /\ Len(imwrites) = 1)
    /\ ret = <<1>> => (applied = <<>> /\ imwrites = <<>>)
    /\ (Terminated /\ Len(argv) >= 1 /\ ~InputLoads)
         => (Has(cout, MsgCouldNotOpen) /\ ~Has(cout, MsgInvalidMorph))

-----------------------------------------------------------------------------
(* C10 *)

\* C10: the timing line is printed once if a transform was applied and never
\* otherwise; its label names the transform applied, which is the one
\* morph_type asked for; it is on standard output by the time imwrite is
\* called; a run that returns 1 printed no timing line and printed the usage
\* line.
C10_TimingLine ==
    /\ TimingLines = Len(applied)
    /\ TimingLines <= 1
    /\ Has(cout, MsgTimeDilate)
         => (applied = <<"Dilation">> /\ morph_type = dilateStr)
    /\ Has(cout, MsgTimeErode)
         => (applied = <<"Erosion">> /\ morph_type = erodeStr)
    /\ (pc = "WriteOutput" \/ imwrites # <<>>) => TimingLines = 1
    /\ ret = <<0>> => TimingLines = 1
    /\ ret = <<1>> => (TimingLines = 0 /\ Has(cout, MsgUsage))

C10_Witness ==
    /\ pc = "Exit" /\ ret = <<0>> /\ imwrites # <<>>
    /\ applied = <<"Erosion">> /\ cout = <<MsgTimeErode>>

====
